---- MODULE Spec2Model ----
(***************************************************************************)
(* Model of BundleDiffReporter (src/src/index.js): the stats extractor     *)
(* (generateBundleStats), the diff engine (compareBundleSizes), the size   *)
(* policy (checkFileSize), the failure marker (writeFailureFlag) and the   *)
(* report writer (generateMarkdownReport), sequenced as generateReport     *)
(* sequences them.                                                         *)
(*                                                                         *)
(* File names are sequences of one-character strings, so that the regular  *)
(* expressions of the extractor and the "resolver" substring test act on   *)
(* characters.  Sizes are integers counting thousandths of a KB; a number  *)
(* with two decimals is a multiple of 10, and toFixed(2) rounds to one.    *)
(***************************************************************************)
EXTENDS Integers, Sequences, FiniteSets, TLC

\* ------------------------------------------------------------------ bounds
MaxSegs == 3         \* segments between the stem and ".js" of a generated name
MaxDistFiles == 2    \* entries of the build folder
MaxMasterFiles == 2  \* entries of the baseline stats file

\* --------------------------------------------------------------- characters
Str_js == <<".", "j", "s">>
Str_chunk_js == <<".", "c", "h", "u", "n", "k", ".", "j", "s">>
Str_resolver == <<"r", "e", "s", "o", "l", "v", "e", "r">>

HexChars == {"0", "1", "2", "3", "4", "5", "6", "7", "8", "9",
             "a", "b", "c", "d", "e", "f", "A", "B", "C", "D", "E", "F"}

\* the i flag of the three patterns: compare letters without case
Lower(c) ==
    CASE c = "A" -> "a" [] c = "B" -> "b" [] c = "C" -> "c" [] c = "D" -> "d"
      [] c = "E" -> "e" [] c = "F" -> "f" [] c = "J" -> "j" [] c = "S" -> "s"
      [] c = "H" -> "h" [] c = "U" -> "u" [] c = "N" -> "n" [] c = "K" -> "k"
      [] OTHER -> c

LowerSeq(s) == [i \in 1..Len(s) |-> Lower(s[i])]

EndsWith(s, suf) ==
    /\ Len(s) >= Len(suf)
    /\ SubSeq(s, Len(s) - Len(suf) + 1, Len(s)) = suf

EndsWithI(s, suf) == EndsWith(LowerSeq(s), suf)

\* String.prototype.includes
Includes(s, sub) ==
    \E i \in 1..(Len(s) - Len(sub) + 1) : SubSeq(s, i, i + Len(sub) - 1) = sub

\* path.extname(file) === '.js': the text from the last "." on, which is
\* empty when that "." is the first character of the name
ExtnameIsJs(file) == Len(file) > 3 /\ EndsWith(file, Str_js)

\* ------------------------------------------------------------ normalisation
\* positions p where  <lead>[0-9a-f]{minHex,}\.js$  matches (flag i)
HashMatches(s, lead, minHex) ==
    { p \in 1..Len(s) :
        /\ s[p] = lead
        /\ EndsWithI(s, Str_js)
        /\ (Len(s) - 3) - p >= minHex
        /\ \A i \in (p + 1)..(Len(s) - 3) : s[i] \in HexChars }

\* s.replace(/<lead>[0-9a-f]{minHex,}\.js$/i, '.js'): the leftmost match
StripHash(s, lead, minHex) ==
    LET ms == HashMatches(s, lead, minHex) IN
    IF ms = {} THEN s
    ELSE LET p == CHOOSE q \in ms : \A r \in ms : q <= r
         IN SubSeq(s, 1, p - 1) \o Str_js

\* s.replace(/\.chunk\.js$/i, '.js')
StripChunk(s) ==
    IF EndsWithI(s, Str_chunk_js)
    THEN SubSeq(s, 1, Len(s) - Len(Str_chunk_js)) \o Str_js
    ELSE s

cleanName(file) == StripChunk(StripHash(StripHash(file, ".", 8), "-", 10))

\* ------------------------------------------------------------------ numbers
Abs(x) == IF x < 0 THEN 0 - x ELSE x

\* a size in KB with two decimals, counted in thousandths of a KB
KB(n) == n * 1000

\* parseFloat(x.toFixed(2)): the nearest multiple of a hundredth, ties away
\* from zero
ToFixed2(x) ==
    IF x >= 0 THEN ((x + 5) \div 10) * 10
    ELSE 0 - (((0 - x) + 5) \div 10) * 10

\* (bytes / 1024).toFixed(2): bytes / 1024 KB, rounded to a hundredth
BytesToKB(bytes) == ((bytes * 200 + 1024) \div 2048) * 10

\* Math.abs((sizeDiff / masterSize) * 100) in IEEE arithmetic: x / 0 is NaN
\* for x = 0 and an infinity otherwise
Percent(sizeDiff, masterSize) ==
    IF masterSize = 0
    THEN IF sizeDiff = 0
         THEN [kind |-> "NaN", num |-> 0, den |-> 1]
         ELSE [kind |-> "Infinity", num |-> 0, den |-> 1]
    ELSE [kind |-> "finite", num |-> Abs(sizeDiff) * 100, den |-> masterSize]

\* p >= t for a percentage p and a finite number t: false for NaN
PercentGE(p, t) ==
    CASE p.kind = "NaN" -> FALSE
      [] p.kind = "Infinity" -> TRUE
      [] OTHER -> p.num >= t * p.den

\* Array.prototype.sort with the comparator (a, b) => key(b) - key(a):
\* stable, descending in keys[i], the key of seq[i]
SortDescBy(seq, keys) ==
    LET n == Len(seq)
        pos(i) == 1 + Cardinality({ j \in 1..n :
                        \/ keys[j] > keys[i]
                        \/ keys[j] = keys[i] /\ j < i })
    IN [p \in 1..n |-> seq[CHOOSE i \in 1..n : pos(i) = p]]

\* ---------------------------------------------------- objects keyed by name
\* An object with file-name keys is the sequence of its entries in key order
\* (insertion order: the names are not integer-like); each entry has a field
\* "file", the key.
Keys(obj) == { obj[i].file : i \in 1..Len(obj) }

Has(obj, file) == file \in Keys(obj)

Get(obj, file) == obj[CHOOSE i \in 1..Len(obj) : obj[i].file = file]

\* Put that leaves the entry of an existing key as it is
Put_KeepFirst(obj, e) == IF Has(obj, e.file) THEN obj ELSE Append(obj, e)

\* obj[e.file] = e: a new key goes last, an existing key keeps its place
Put(obj, e) ==
    IF Has(obj, e.file)
    THEN [i \in 1..Len(obj) |-> IF obj[i].file = e.file THEN e ELSE obj[i]]
    ELSE Append(obj, e)

\* -------------------------------------------------------------------- state
VARIABLES
    options,      \* the argument of the constructor
    config,       \* this.config
    dist,         \* the build folder: its entries in readdirSync order
    masterFile,   \* <outputFolder>/<masterFile>
    currentFile,  \* <outputFolder>/<currentFile>
    failureFile,  \* <outputFolder>/<failureFile> exists
    outputFile,   \* <outputFolder>/<outputFile>, the report
    diff,         \* this.diff
    failedFiles,  \* this.failedFiles
    returned,     \* the value generateReport returned
    exitCode,     \* status of the process once it has ended, else Running
    pc,           \* position of the script in its calls
    wrote         \* the output files this run has written, in order

vars == <<options, config, dist, masterFile, currentFile, failureFile,
          outputFile, diff, failedFiles, returned, exitCode, pc, wrote>>

Undefined == 0 - 1                  \* an option the caller left out
Null == [null |-> TRUE]             \* null, and a return value not yet there
Running == 0 - 1                    \* the process has not ended
IsNull(v) == "null" \in DOMAIN v

\* a file of the output folder
Absent == [kind |-> "absent", map |-> <<>>]
Malformed == [kind |-> "malformed", map |-> <<>>]
Json(map) == [kind |-> "json", map |-> map]

\* ---------------------------------------------------------- stats extractor
\* .filter(file => statSync(fullPath).isFile() && extname(file) === '.js')
IsBundleFile(entry) == entry.isFile /\ ExtnameIsJs(entry.file)

\* the body of the forEach: result[cleanName] = { size: sizeKB }
RECURSIVE CollectStats(_, _)
CollectStats(entries, result) ==
    IF entries = <<>> THEN result
    ELSE LET e == Head(entries) IN
         CollectStats(Tail(entries),
             IF IsBundleFile(e)
             THEN Put(result, [file |-> cleanName(e.file),
                               size |-> BytesToKB(e.bytes)])
             ELSE result)

\* Object.entries(result).sort(([, a], [, b]) => b.size - a.size)
SortBySize(result) == SortDescBy(result, [i \in 1..Len(result) |-> result[i].size])

\* what generateBundleStats writes to the current stats file
BundleStats(entries) == SortBySize(CollectStats(entries, <<>>))

\* -------------------------------------------------------------- diff engine
initializeDiff ==
    [added |-> <<>>, removed |-> <<>>, changed |-> <<>>, same |-> <<>>,
     summary |-> [totalAdded |-> 0, totalRemoved |-> 0, sizeIncrease |-> 0,
                  sizeDecrease |-> 0, countChanged |-> 0]]

\* addNewFile without the running total
addNewFile_NoTotal(d, file, fileData) ==
    [d EXCEPT !.added = Put(@, [file |-> file, size |-> fileData.size])]

addNewFile(d, file, fileData) ==
    [d EXCEPT !.added = Put(@, [file |-> file, size |-> fileData.size]),
              !.summary.totalAdded = @ + fileData.size]

\* p > t, the exclusive comparison
PercentGT(p, t) ==
    CASE p.kind = "NaN" -> FALSE
      [] p.kind = "Infinity" -> TRUE
      [] OTHER -> p.num > t * p.den

\* processChangedFile with an exclusive threshold
processChangedFile_Exclusive(d, file, currentData, masterData) ==
    LET sizeDiff == currentData.size - masterData.size
        sizeDiffPercent == Percent(sizeDiff, masterData.size)
    IN IF PercentGT(sizeDiffPercent, config.changeThreshold)
       THEN [d EXCEPT
               !.changed = Put(@, [file |-> file,
                                   current |-> currentData.size,
                                   master |-> masterData.size,
                                   difference |-> ToFixed2(sizeDiff)]),
               !.summary.countChanged = @ + 1,
               !.summary.sizeIncrease =
                   IF sizeDiff > 0 THEN @ + sizeDiff ELSE @,
               !.summary.sizeDecrease =
                   IF sizeDiff > 0 THEN @ ELSE @ + Abs(sizeDiff)]
       ELSE [d EXCEPT !.same = Put(@, [file |-> file,
                                       size |-> currentData.size])]

processChangedFile(d, file, currentData, masterData) ==
    LET sizeDiff == currentData.size - masterData.size
        sizeDiffPercent == Percent(sizeDiff, masterData.size)
    IN IF PercentGE(sizeDiffPercent, config.changeThreshold)
       THEN [d EXCEPT
               !.changed = Put(@, [file |-> file,
                                   current |-> currentData.size,
                                   master |-> masterData.size,
                                   difference |-> ToFixed2(sizeDiff)]),
               !.summary.countChanged = @ + 1,
               !.summary.sizeIncrease =
                   IF sizeDiff > 0 THEN @ + sizeDiff ELSE @,
               !.summary.sizeDecrease =
                   IF sizeDiff > 0 THEN @ ELSE @ + Abs(sizeDiff)]
       ELSE [d EXCEPT !.same = Put(@, [file |-> file,
                                       size |-> currentData.size])]

\* sortChangedFiles leaving the entries in insertion order
sortChangedFiles_NoSort(changedFiles) == changedFiles

sortChangedFiles(changedFiles) ==
    SortDescBy(changedFiles,
               [i \in 1..Len(changedFiles) |-> changedFiles[i].difference])

\* the body of the forEach over Object.entries(current)
ProcessCurrentEntry(master, d, e) ==
    IF ~Has(master, e.file)
    THEN addNewFile(d, e.file, e)
    ELSE processChangedFile(d, e.file, e, Get(master, e.file))

RECURSIVE ForEachCurrent(_, _, _)
ForEachCurrent(master, entries, d) ==
    IF entries = <<>> THEN d
    ELSE ForEachCurrent(master, Tail(entries),
                        ProcessCurrentEntry(master, d, Head(entries)))

processAddedAndChangedFiles(master, current, d) ==
    LET d1 == ForEachCurrent(master, current, d)
    IN IF Len(d1.changed) # 0
       THEN [d1 EXCEPT !.changed = sortChangedFiles(@)]
       ELSE d1

\* ProcessMasterEntry without the test for the file in current
ProcessMasterEntry_NoTest(current, d, e) ==
    [d EXCEPT !.removed = Put(@, e),
              !.summary.totalRemoved = @ + e.size]

\* the body of the forEach over Object.entries(master)
ProcessMasterEntry(current, d, e) ==
    IF ~Has(current, e.file)
    THEN [d EXCEPT !.removed = Put(@, e),
                   !.summary.totalRemoved = @ + e.size]
    ELSE d

RECURSIVE processRemovedFiles(_, _, _)
processRemovedFiles(master, current, d) ==
    IF master = <<>> THEN d
    ELSE processRemovedFiles(Tail(master), current,
                             ProcessMasterEntry(current, d, Head(master)))

\* finalizeDiff rebuilding the summary without the count
finalizeDiff_ForgetCount(d) ==
    [d EXCEPT !.summary =
        [totalAdded |-> ToFixed2(d.summary.totalAdded),
         totalRemoved |-> ToFixed2(d.summary.totalRemoved),
         sizeIncrease |-> ToFixed2(d.summary.sizeIncrease),
         sizeDecrease |-> ToFixed2(d.summary.sizeDecrease),
         countChanged |-> 0]]

finalizeDiff(d) ==
    [d EXCEPT !.summary =
        [totalAdded |-> ToFixed2(d.summary.totalAdded),
         totalRemoved |-> ToFixed2(d.summary.totalRemoved),
         sizeIncrease |-> ToFixed2(d.summary.sizeIncrease),
         sizeDecrease |-> ToFixed2(d.summary.sizeDecrease),
         countChanged |-> d.summary.countChanged]]

\* the diff compareBundleSizes returns for two parsed stats files
ComputeDiff(master, current) ==
    finalizeDiff(
        processRemovedFiles(master, current,
            processAddedAndChangedFiles(master, current, initializeDiff)))

\* ------------------------------------------------------------- size policy
\* { ...addedFiles, ...changedFiles }: entries [file, size], added first
RECURSIVE PutAll(_, _)
PutAll(obj, entries) ==
    IF entries = <<>> THEN obj
    ELSE PutAll(Put(obj, Head(entries)), Tail(entries))

extractFileSizes(d) ==
    PutAll([i \in 1..Len(d.added) |->
               [file |-> d.added[i].file, size |-> d.added[i].size]],
           [i \in 1..Len(d.changed) |->
               [file |-> d.changed[i].file, size |-> d.changed[i].current]])

\* Array.prototype.includes on an allowlist
InList(list, file) == \E i \in 1..Len(list) : list[i] = file

\* isAboveAverageFile without the allowlist
isAboveAverageFile_NoAllowlist(fileName, fileSize) ==
    fileSize > KB(config.splittingUpperLimit)

isAboveAverageFile(fileName, fileSize) ==
    /\ fileSize > KB(config.splittingUpperLimit)
    /\ ~InList(config.aboveAverageFiles, fileName)

\* isBelowAverageFile without the exemption of resolver chunks
isBelowAverageFile_NoResolver(fileName, fileSize) ==
    /\ fileSize < KB(config.splittingLowerLimit)
    /\ ~InList(config.belowAverageFiles, fileName)

isBelowAverageFile(fileName, fileSize) ==
    /\ fileSize < KB(config.splittingLowerLimit)
    /\ ~InList(config.belowAverageFiles, fileName)
    /\ ~Includes(fileName, Str_resolver)

\* the body of the forEach over Object.entries(files)
ClassifyFile(acc, fileName, fileSize) ==
    LET e == [fileName |-> fileName, fileSize |-> fileSize] IN
    IF isAboveAverageFile(fileName, fileSize)
    THEN [acc EXCEPT !.aboveAverageFiles = Append(@, e)]
    ELSE IF isBelowAverageFile(fileName, fileSize)
         THEN [acc EXCEPT !.belowAverageFiles = Append(@, e)]
         ELSE acc

RECURSIVE ForEachFile(_, _)
ForEachFile(files, acc) ==
    IF files = <<>> THEN acc
    ELSE ForEachFile(Tail(files),
                     ClassifyFile(acc, Head(files).file, Head(files).size))

checkFileSize(d) ==
    ForEachFile(extractFileSizes(d),
                [aboveAverageFiles |-> <<>>, belowAverageFiles |-> <<>>])

\* isSuccess looking at the files above the limit only
isSuccess_AboveOnly == Len(failedFiles.aboveAverageFiles) = 0

isSuccess ==
    /\ Len(failedFiles.belowAverageFiles) = 0
    /\ Len(failedFiles.aboveAverageFiles) = 0

\* ------------------------------------------------------------------- inputs
Name_a == <<"a">> \o Str_js
Name_b == <<"b">> \o Str_js
Name_resolver == Str_resolver \o Str_js
Seg_hash8 == <<".", "0", "1", "2", "3", "a", "b", "c", "d">>
Seg_HASH8 == <<".", "A", "B", "C", "D", "E", "F", "0", "1">>
Seg_hash7 == <<".", "0", "1", "2", "3", "a", "b", "c">>
Seg_chunk10 == <<"-", "0", "1", "2", "3", "4", "5", "6", "7", "8", "9">>
Seg_chunk == <<".", "c", "h", "u", "n", "k">>

\* the sequences over S of length at most n
SeqsUpTo(S, n) == UNION { [1..k -> S] : k \in 0..n }

Distinct(obj) == \A i, j \in 1..Len(obj) : obj[i].file = obj[j].file => i = j

\* entries of a build folder: bundles, hashed bundles, a style sheet and a
\* subdirectory whose name ends in .js
DistNames == { Name_a, <<"a">> \o Seg_hash8 \o Str_js,
               <<"b">> \o Seg_chunk \o Str_js, Name_resolver }
DistBytes == { 0, 5120, 107523, 307200 }
DistEntries ==
    [file : DistNames, isFile : {TRUE}, bytes : DistBytes]
    \cup { [file |-> <<"a", ".", "c", "s", "s">>, isFile |-> TRUE, bytes |-> 5120],
           [file |-> <<"d">> \o Str_js, isFile |-> FALSE, bytes |-> 0] }
DistFolders == { d \in SeqsUpTo(DistEntries, MaxDistFiles) : Distinct(d) }

\* baseline stats files: written by an earlier generateBundleStats, so their
\* names are canonical, their sizes have two decimals and they are sorted by
\* descending size
MasterNames == { Name_a, Name_b, Name_resolver }
MasterSizes == { KB(0), KB(100), KB(300) }
MasterMaps ==
    { m \in SeqsUpTo([file : MasterNames, size : MasterSizes], MaxMasterFiles) :
        /\ Distinct(m)
        /\ \A i \in 1..(Len(m) - 1) : m[i].size >= m[i + 1].size }
MasterFiles == { Absent, Malformed } \cup { Json(m) : m \in MasterMaps }

\* build folders of at most one entry and baselines of at most one file, for
\* the runs that follow one another
RunFolders == { d \in DistFolders : Len(d) <= 1 }
RunMasters == { Json(m) : m \in { n \in MasterMaps : Len(n) <= 1 } }

\* arguments of the constructor: nothing supplied; zeros supplied; a custom
\* policy
OptionSets ==
    { [changeThreshold |-> Undefined, splittingUpperLimit |-> Undefined,
       splittingLowerLimit |-> Undefined,
       aboveAverageFiles |-> <<>>, belowAverageFiles |-> <<>>],
      [changeThreshold |-> 0, splittingUpperLimit |-> 0,
       splittingLowerLimit |-> 0,
       aboveAverageFiles |-> <<Name_a>>, belowAverageFiles |-> <<>>],
      [changeThreshold |-> 10, splittingUpperLimit |-> 100,
       splittingLowerLimit |-> 50,
       aboveAverageFiles |-> <<>>, belowAverageFiles |-> <<Name_b>>] }

\* on-disk names a.<segments>.js carrying up to MaxSegs hash or chunk markers
NameSegments == { Seg_hash8, Seg_HASH8, Seg_hash7, Seg_chunk10, Seg_chunk }
RECURSIVE Concat(_)
Concat(segs) == IF segs = <<>> THEN <<>> ELSE Head(segs) \o Concat(Tail(segs))
HashedNames ==
    { <<"a">> \o Concat(segs) \o Str_js : segs \in SeqsUpTo(NameSegments, MaxSegs) }

\* ------------------------------------------------------------------ actions
\* options.x || dflt for a number: the default for undefined and for 0
OrDefault(x, dflt) == IF x = Undefined \/ x = 0 THEN dflt ELSE x

Exit(code) == pc' = "done" /\ exitCode' = code

\* new BundleDiffReporter(options); a throw of mkdirSync is not caught
Constructor ==
    /\ pc = "new"
    /\ config' = [changeThreshold |-> OrDefault(options.changeThreshold, 5),
                  splittingUpperLimit |-> OrDefault(options.splittingUpperLimit, 250),
                  splittingLowerLimit |-> OrDefault(options.splittingLowerLimit, 20),
                  aboveAverageFiles |-> options.aboveAverageFiles,
                  belowAverageFiles |-> options.belowAverageFiles]
    /\ diff' = Null
    /\ failedFiles' = Null
    /\ \E mkdirOk \in BOOLEAN :
          IF mkdirOk THEN pc' = "constructed" /\ exitCode' = exitCode
          ELSE Exit(1)
    /\ UNCHANGED <<options, dist, masterFile, currentFile, failureFile,
                   outputFile, returned, wrote>>

\* reporter.generateBundleStats(); its throws are not caught
GenerateBundleStats ==
    /\ pc = "constructed"
    /\ \E readOk, writeOk \in BOOLEAN :
          IF readOk /\ writeOk
          THEN /\ currentFile' = Json(BundleStats(dist))
               /\ wrote' = Append(wrote, "currentFile")
               /\ pc' = "stats"
               /\ exitCode' = exitCode
          ELSE /\ Exit(1)
               /\ UNCHANGED <<currentFile, wrote>>
    /\ UNCHANGED <<options, config, dist, masterFile, failureFile, outputFile,
                   diff, failedFiles, returned>>

\* generateReport, first call: this.diff = this.compareBundleSizes()
CompareBundleSizes ==
    /\ pc \in {"constructed", "stats"}
    /\ IF \/ masterFile.kind = "absent"
          \/ currentFile.kind = "absent"
          \/ masterFile.kind = "malformed"
          \/ currentFile.kind = "malformed"
       THEN Exit(1) /\ diff' = diff
       ELSE /\ diff' = ComputeDiff(masterFile.map, currentFile.map)
            /\ pc' = "compared"
            /\ exitCode' = exitCode
    /\ UNCHANGED <<options, config, dist, masterFile, currentFile, failureFile,
                   outputFile, failedFiles, returned, wrote>>

\* this.failedFiles = this.checkFileSize(this.diff)
CheckFileSize ==
    /\ pc = "compared"
    /\ failedFiles' = checkFileSize(diff)
    /\ pc' = "checked"
    /\ UNCHANGED <<options, config, dist, masterFile, currentFile, failureFile,
                   outputFile, diff, returned, exitCode, wrote>>

\* this.writeFailureFlag(); a throw is caught by generateReport: exit(1)
writeFailureFlag ==
    /\ pc = "checked"
    /\ IF ~isSuccess
       THEN \E writeOk \in BOOLEAN :
               IF writeOk
               THEN /\ failureFile' = TRUE
                    /\ wrote' = Append(wrote, "failureFile")
                    /\ pc' = "flagged"
                    /\ exitCode' = exitCode
               ELSE Exit(1) /\ UNCHANGED <<failureFile, wrote>>
       ELSE /\ pc' = "flagged"
            /\ UNCHANGED <<failureFile, wrote, exitCode>>
    /\ UNCHANGED <<options, config, dist, masterFile, currentFile, outputFile,
                   diff, failedFiles, returned>>

\* the text of the report: its banner and the sections that are not empty
Markdown ==
    [kind |-> "report",
     passed |-> isSuccess,
     sections |->
        <<"summary">>
        \o (IF Len(diff.changed) = 0 THEN <<>> ELSE <<"changed">>)
        \o (IF Len(failedFiles.aboveAverageFiles) = 0 THEN <<>> ELSE <<"above">>)
        \o (IF Len(failedFiles.belowAverageFiles) = 0 THEN <<>> ELSE <<"below">>)
        \o (IF Len(diff.added) = 0 THEN <<>> ELSE <<"added">>)
        \o (IF Len(diff.removed) = 0 THEN <<>> ELSE <<"removed">>)]

\* this.generateMarkdownReport(); a throw is caught by generateReport
generateMarkdownReport ==
    /\ pc = "flagged"
    /\ \E writeOk \in BOOLEAN :
          IF writeOk
          THEN /\ outputFile' = Markdown
               /\ wrote' = Append(wrote, "outputFile")
               /\ pc' = "reported"
               /\ exitCode' = exitCode
          ELSE Exit(1) /\ UNCHANGED <<outputFile, wrote>>
    /\ UNCHANGED <<options, config, dist, masterFile, currentFile, failureFile,
                   diff, failedFiles, returned>>

\* return { success, diff, failedFiles }; the script ends
Return ==
    /\ pc = "reported"
    /\ returned' = [success |-> isSuccess, diff |-> diff,
                    failedFiles |-> failedFiles]
    /\ Exit(0)
    /\ UNCHANGED <<options, config, dist, masterFile, currentFile, failureFile,
                   outputFile, diff, failedFiles, wrote>>

Start(folders) ==
    /\ options \in OptionSets
    /\ config = Null
    /\ dist \in folders
    /\ masterFile \in MasterFiles
    /\ currentFile = Absent
    /\ failureFile = FALSE
    /\ outputFile = Absent
    /\ diff = Null
    /\ failedFiles = Null
    /\ returned = Null
    /\ exitCode = Running
    /\ pc = "new"
    /\ wrote = <<>>

Init == Start(DistFolders)

Next ==
    \/ Constructor
    \/ GenerateBundleStats
    \/ CompareBundleSizes
    \/ CheckFileSize
    \/ writeFailureFlag
    \/ generateMarkdownReport
    \/ Return

Spec == Init /\ [][Next]_vars

\* the pipeline runs the script again on a new build; the output folder,
\* with the files earlier runs wrote, is kept
NewRun ==
    /\ pc = "done"
    /\ pc' = "new"
    /\ dist' \in RunFolders
    /\ config' = Null
    /\ diff' = Null
    /\ failedFiles' = Null
    /\ returned' = Null
    /\ exitCode' = Running
    /\ wrote' = <<>>
    /\ UNCHANGED <<options, masterFile, currentFile, failureFile, outputFile>>

InitRuns ==
    /\ Start(RunFolders)
    /\ masterFile \in RunMasters

NextRuns == Next \/ NewRun

\* runs of the script, one after the other, on one output folder
SpecRuns == InitRuns /\ [][NextRuns]_vars

\* the extractor alone, on a build folder of one hashed bundle
InitNames ==
    Start({ <<[file |-> n, isFile |-> TRUE, bytes |-> 5120]>> : n \in HashedNames })

SpecNames == InitNames /\ [][Next]_vars

\* ------------------------------------------------------------------- claims
HasDiff == ~IsNull(diff)
HasFailedFiles == ~IsNull(failedFiles)
Baseline == masterFile.map
Current == currentFile.map
FileNames(list) == { list[i].fileName : i \in 1..Len(list) }

RECURSIVE SumSize(_)
SumSize(obj) == IF obj = <<>> THEN 0 ELSE Head(obj).size + SumSize(Tail(obj))

\* the number of the four buckets that hold file f
BucketCount(d, f) ==
    Cardinality({ b \in {"added", "removed", "changed", "same"} :
        \/ b = "added" /\ Has(d.added, f)
        \/ b = "removed" /\ Has(d.removed, f)
        \/ b = "changed" /\ Has(d.changed, f)
        \/ b = "same" /\ Has(d.same, f) })

\* C1: after compareBundleSizes every file name of the baseline or the current
\* map is in exactly one of added, removed, changed, same (and once in it),
\* and the buckets hold no other name.
C1_Partition ==
    HasDiff =>
        /\ \A f \in Keys(Baseline) \cup Keys(Current) : BucketCount(diff, f) = 1
        /\ Keys(diff.added) \cup Keys(diff.removed) \cup Keys(diff.changed)
              \cup Keys(diff.same) \subseteq Keys(Baseline) \cup Keys(Current)
        /\ Distinct(diff.added) /\ Distinct(diff.removed)
        /\ Distinct(diff.changed) /\ Distinct(diff.same)

\* a diff with an added, a removed and a matched file
C1_Witness ==
    /\ HasDiff
    /\ diff.added # <<>>
    /\ diff.removed # <<>>
    /\ diff.changed # <<>> \/ diff.same # <<>>

\* the file is in both maps
Matched(f) == Has(Baseline, f) /\ Has(Current, f)

\* abs((current - baseline) / baseline * 100) >= t as the language evaluates
\* it: by cross-multiplication for a positive baseline; for a baseline of 0
\* the quotient is NaN (never >= t) when current is 0 too and infinite (>= t)
\* otherwise
ChangeAtLeast(cur, base, t) ==
    IF base > 0 THEN Abs(cur - base) * 100 >= t * base ELSE cur # 0

\* C2: a file of both maps is in changed iff its absolute percentage change
\* is at least changeThreshold, and in same otherwise; a change of exactly
\* changeThreshold percent is changed.
C2_Threshold ==
    HasDiff =>
        \A f \in Keys(Baseline) \cup Keys(Current) :
            Matched(f) =>
                LET significant == ChangeAtLeast(Get(Current, f).size,
                                                 Get(Baseline, f).size,
                                                 config.changeThreshold)
                IN /\ Has(diff.changed, f) <=> significant
                   /\ Has(diff.same, f) <=> ~significant

\* a matched file whose change is exactly changeThreshold percent, in changed
C2_Witness ==
    /\ HasDiff
    /\ \E i \in 1..Len(diff.changed) :
          /\ diff.changed[i].master > 0
          /\ Abs(diff.changed[i].current - diff.changed[i].master) * 100
                = config.changeThreshold * diff.changed[i].master

\* the size checkFileSize sees for a file of added or changed
CheckedSize(f) ==
    IF Has(diff.changed, f) THEN Get(diff.changed, f).current
    ELSE Get(diff.added, f).size

Checked == Keys(diff.added) \cup Keys(diff.changed)

\* C3: aboveAverageFiles holds exactly the files of added and changed whose
\* current size is above splittingUpperLimit and that are not allowlisted,
\* each once with that size; a file of removed or same only is in neither
\* list.
C3_AboveAverage ==
    HasFailedFiles =>
        LET above == failedFiles.aboveAverageFiles
            below == failedFiles.belowAverageFiles
        IN /\ FileNames(above) =
                { f \in Checked :
                    /\ CheckedSize(f) > KB(config.splittingUpperLimit)
                    /\ ~InList(config.aboveAverageFiles, f) }
           /\ \A i, j \in 1..Len(above) :
                 above[i].fileName = above[j].fileName => i = j
           /\ \A i \in 1..Len(above) :
                 above[i].fileSize = CheckedSize(above[i].fileName)
           /\ \A f \in Keys(diff.removed) \cup Keys(diff.same) :
                 f \notin FileNames(above) \cup FileNames(below)

\* one file flagged above the limit, an allowlisted file above it not
\* flagged, and a removed file above it
C3_Witness ==
    /\ HasFailedFiles
    /\ failedFiles.aboveAverageFiles # <<>>
    /\ \E f \in Checked :
          /\ CheckedSize(f) > KB(config.splittingUpperLimit)
          /\ InList(config.aboveAverageFiles, f)
          /\ f \notin FileNames(failedFiles.aboveAverageFiles)
    /\ \E f \in Keys(diff.removed) :
          Get(diff.removed, f).size > KB(config.splittingUpperLimit)

\* C4: a file of belowAverageFiles is in added or changed, is not flagged
\* above the limit, has a current size below splittingLowerLimit, is not
\* allowlisted and has no "resolver" in its name; no file is in both lists.
C4_BelowAverage ==
    HasFailedFiles =>
        LET above == failedFiles.aboveAverageFiles
            below == failedFiles.belowAverageFiles
        IN /\ \A i \in 1..Len(below) :
                 LET f == below[i].fileName IN
                 /\ f \in Checked
                 /\ f \notin FileNames(above)
                 /\ below[i].fileSize = CheckedSize(f)
                 /\ CheckedSize(f) < KB(config.splittingLowerLimit)
                 /\ ~InList(config.belowAverageFiles, f)
                 /\ ~Includes(f, Str_resolver)
           /\ FileNames(above) \cap FileNames(below) = {}

\* a file flagged below the limit beside a small resolver chunk not flagged
C4_Witness ==
    /\ HasFailedFiles
    /\ failedFiles.belowAverageFiles # <<>>
    /\ \E f \in Checked :
          /\ CheckedSize(f) < KB(config.splittingLowerLimit)
          /\ Includes(f, Str_resolver)
          /\ f \notin FileNames(failedFiles.belowAverageFiles)

Wrote(file) == \E i \in 1..Len(wrote) : wrote[i] = file

\* C5: the verdict generateReport returns is success iff both lists of
\* failed files are empty, and the run has written the failure marker iff
\* the verdict is not success.
C5_Verdict ==
    ~IsNull(returned) =>
        /\ returned.success <=>
              /\ returned.failedFiles.aboveAverageFiles = <<>>
              /\ returned.failedFiles.belowAverageFiles = <<>>
        /\ Wrote("failureFile") <=> ~returned.success
        /\ Wrote("failureFile") => failureFile

\* a run that returned a failing verdict for a file below the limit only
C5_Witness ==
    /\ ~IsNull(returned)
    /\ ~returned.success
    /\ returned.failedFiles.aboveAverageFiles = <<>>
    /\ Wrote("failureFile")

\* C6, as claimed: changed is ordered by descending absolute difference.
C6_AbsoluteOrder ==
    HasDiff =>
        \A i, j \in 1..Len(diff.changed) :
            i < j => Abs(diff.changed[i].difference)
                        >= Abs(diff.changed[j].difference)

\* C6, amended: changed is ordered by descending signed difference, so
\* every growth precedes every shrinkage.
C6_SignedOrder ==
    HasDiff =>
        \A i, j \in 1..Len(diff.changed) :
            i < j => diff.changed[i].difference >= diff.changed[j].difference

\* two shrunken files that the sort has exchanged: the one of larger current
\* size, first in the current map, shrank more and comes second
C6_Witness ==
    /\ HasDiff
    /\ Len(diff.changed) = 2
    /\ diff.changed[1].difference > diff.changed[2].difference
    /\ Abs(diff.changed[1].difference) < Abs(diff.changed[2].difference)
    /\ diff.changed[1].current < diff.changed[2].current

\* C7: the names generateBundleStats writes are fixed points of the
\* normalisation, that is cleanName(cleanName(f)) = cleanName(f) for every
\* bundle f of the build folder.
C7_Idempotent ==
    currentFile.kind = "json" =>
        \A i \in 1..Len(Current) : cleanName(Current[i].file) = Current[i].file

\* C8: summary.countChanged is the number of entries of changed.
C8_CountChanged ==
    HasDiff => diff.summary.countChanged = Len(diff.changed)

\* a diff with changed files
C8_Witness == HasDiff /\ Len(diff.changed) = 2 /\ diff.same = <<>>

\* C9: summary.totalAdded is the sum of the sizes in added and
\* summary.totalRemoved the sum of the sizes in removed.
C9_Totals ==
    HasDiff =>
        /\ diff.summary.totalAdded = SumSize(diff.added)
        /\ diff.summary.totalRemoved = SumSize(diff.removed)

\* added and removed files of positive total size
C9_Witness ==
    /\ HasDiff
    /\ Len(diff.added) = 2 /\ SumSize(diff.added) > KB(300)
    /\ Len(diff.removed) = 1 /\ SumSize(diff.removed) > 0

\* C10: a run that has ended without writing its report has not written the
\* failure marker either.
C10_NoPartialOutput ==
    pc = "done" /\ Wrote("failureFile") => Wrote("outputFile")

\* C11: a matched file whose baseline size is 0 is classified with a
\* percentage that is a number (neither NaN nor an infinity) and is always
\* changed, whether its current size is 0 or not.
C11_ZeroBaseline ==
    HasDiff =>
        \A f \in Keys(Baseline) \cup Keys(Current) :
            Matched(f) /\ Get(Baseline, f).size = 0 =>
                /\ Percent(Get(Current, f).size - Get(Baseline, f).size,
                           Get(Baseline, f).size).kind = "finite"
                /\ Has(diff.changed, f)

\* the orders in which the entries of a folder can be processed
Orders(entries) ==
    { [i \in 1..Len(entries) |-> entries[p[i]]] :
        p \in { q \in [1..Len(entries) -> 1..Len(entries)] :
                  \A i, j \in 1..Len(entries) : q[i] = q[j] => i = j } }

\* a bundle map as a set of pairs of name and size
AsMapping(map) == { <<map[i].file, map[i].size>> : i \in 1..Len(map) }

\* two bundles of the folder have the same canonical name
Collide(entries) ==
    \E i, j \in 1..Len(entries) :
        /\ i < j
        /\ IsBundleFile(entries[i]) /\ IsBundleFile(entries[j])
        /\ cleanName(entries[i].file) = cleanName(entries[j].file)

\* C13, as claimed: the mapping generateBundleStats writes is the one every
\* other processing order of the folder gives, colliding names included.
C13_AnyOrder ==
    Wrote("currentFile") =>
        \A o \in Orders(dist) : AsMapping(BundleStats(o)) = AsMapping(Current)

\* C13, amended: without colliding names every processing order gives the
\* mapping written; of bundles with the same canonical name the one processed
\* last gives the size.
C13_LastWins ==
    Wrote("currentFile") =>
        /\ ~Collide(dist) =>
              \A o \in Orders(dist) :
                  AsMapping(BundleStats(o)) = AsMapping(Current)
        /\ \A i \in 1..Len(dist) :
              /\ IsBundleFile(dist[i])
              /\ \A j \in (i + 1)..Len(dist) :
                    IsBundleFile(dist[j]) =>
                        cleanName(dist[j].file) # cleanName(dist[i].file)
              => <<cleanName(dist[i].file), BytesToKB(dist[i].bytes)>>
                    \in AsMapping(Current)

\* two bundles of different sizes and one canonical name, the stats written
C13_Witness ==
    /\ Wrote("currentFile")
    /\ Len(dist) = 2
    /\ Collide(dist)
    /\ BytesToKB(dist[1].bytes) # BytesToKB(dist[2].bytes)
    /\ Len(Current) = 1

\* options.x when supplied, else the documented default
SuppliedOr(x, dflt) == IF x = Undefined THEN dflt ELSE x

\* C14: the engine uses every numeric option that is supplied and the
\* defaults 5, 250 and 20 only for options left out; with changeThreshold 0
\* every matched file is changed, with splittingLowerLimit 0 no file is
\* flagged below the limit.
C14_SuppliedOptions ==
    /\ ~IsNull(config) =>
          /\ config.changeThreshold = SuppliedOr(options.changeThreshold, 5)
          /\ config.splittingUpperLimit =
                SuppliedOr(options.splittingUpperLimit, 250)
          /\ config.splittingLowerLimit =
                SuppliedOr(options.splittingLowerLimit, 20)
    /\ HasDiff /\ options.changeThreshold = 0 => diff.same = <<>>
    /\ HasFailedFiles /\ options.splittingLowerLimit = 0 =>
          failedFiles.belowAverageFiles = <<>>

\* C12: once a run has returned its verdict, the failure marker exists iff
\* that verdict, the most recent one, is failing.
C12_MarkerIsLastVerdict ==
    ~IsNull(returned) => (failureFile <=> ~returned.success)

====
